---- MODULE Spec2Model ----
(***************************************************************************)
(* Budgeteer: the accounting core of src/budgeteer/models.py.              *)
(*                                                                         *)
(* The store holds five tables (Category, Account, Sheet, SheetEntry,      *)
(* Transaction), each a function from primary key to row.  Money is kept   *)
(* in integer hundredths (a DecimalField with two decimal places), a date  *)
(* is the triple <<year, month, day>>, and a nullable column holds None    *)
(* (<<>>) or Some(v) (<<v>>).                                              *)
(***************************************************************************)
EXTENDS Integers, Sequences, FiniteSets, TLC

VARIABLES categories, accounts, sheets, entries, transactions, last, read, pending

vars == <<categories, accounts, sheets, entries, transactions, last, read, pending>>

store == <<categories, accounts, sheets, entries, transactions>>

(***************************************************************************)
(* Bounds of the model.                                                    *)
(***************************************************************************)
\* Rows a user has created (categories + accounts + sheets + transactions).
MaxRecords == 3
\* SheetEntry rows in the store (the hooks synthesize them; each can be moved to any
\* sheet and category, so their number is what the state space grows fastest in).
MaxEntries == (MaxRecords + 1) \div 2
\* Highest primary key of a SheetEntry (keys of deleted rows are not given again
\* while a row with a higher key is stored, so deletions let the keys grow).
MaxEntryPk == MaxEntries + 1

\* Input domains.
CategoryNames == {"food"}
\* Names a stored category is renamed to.
NewCategoryNames == {"food", "rent"}
AccountNames == {"cash"}
Partners == {"a", "b"}
Balances == {1000}
TransactionValues == {-250, 300}
EntryValues == {0, 400}
Carryovers == {700}
\* (month, year) of the sheets: three consecutive months across a year end.
SheetMonths == {<<12, 2019>>, <<1, 2020>>, <<2, 2020>>}
\* Transaction dates: the last day of one month and the first of the next.
Dates == {<<2020, 1, 31>>, <<2020, 2, 1>>}

(***************************************************************************)
(* Nullable values and small helpers.                                      *)
(***************************************************************************)
None == <<>>

Some(v) == <<v>>

Value(opt) == opt[1]

Min(S) == CHOOSE x \in S : \A y \in S : x <= y

Max(S) == CHOOSE x \in S : \A y \in S : x >= y

\* The primary key an AutoField gives to the next row of a table.
NextPk(table) == IF DOMAIN table = {} THEN 1 ELSE Max(DOMAIN table) + 1

\* table with the row pk -> row added or replaced (Model.save).
Save(table, pk, row) == [k \in DOMAIN table \cup {pk} |-> IF k = pk THEN row ELSE table[k]]

\* QuerySet.aggregate(Sum(field)): None over no rows, else the sum.
RECURSIVE SumValues(_, _)
SumValues(table, pks) ==
    IF pks = {} THEN 0
    ELSE LET k == Min(pks) IN table[k].value + SumValues(table, pks \ {k})

AggregateSum(table, pks) == IF pks = {} THEN None ELSE Some(SumValues(table, pks))

(***************************************************************************)
(* Dates.                                                                  *)
(***************************************************************************)
IsLeap(year) == (year % 4 = 0 /\ year % 100 # 0) \/ year % 400 = 0

\* calendar.monthrange(year, month)[1] that knows no leap year.
DaysInMonth_NoLeapYear(year, month) ==
    IF month = 2 THEN 28
    ELSE IF month \in {4, 6, 9, 11} THEN 30 ELSE 31

\* calendar.monthrange(year, month)[1]
DaysInMonth(year, month) ==
    IF month = 2 THEN (IF IsLeap(year) THEN 29 ELSE 28)
    ELSE IF month \in {4, 6, 9, 11} THEN 30 ELSE 31

\* datetime.date ordering: a <= b
DateLE(a, b) ==
    \/ a[1] < b[1]
    \/ a[1] = b[1] /\ a[2] < b[2]
    \/ a[1] = b[1] /\ a[2] = b[2] /\ a[3] <= b[3]

(***************************************************************************)
(* Sheet: transactions, previous, available.                               *)
(***************************************************************************)
\* Sheet.transactions: the pks of the transactions dated in the sheet's month.
Sheet_transactions(shs, txs, pk) ==
    LET date_start == <<shs[pk].year, shs[pk].month, 1>>
        date_end == <<shs[pk].year, shs[pk].month,
                      DaysInMonth(shs[pk].year, shs[pk].month)>>
    IN {t \in DOMAIN txs : DateLE(date_start, txs[t].date) /\ DateLE(txs[t].date, date_end)}

\* Sheet.previous that does not step back a year from January.
Sheet_previous_SameYear(shs, pk) ==
    LET month == IF shs[pk].month > 1 THEN shs[pk].month - 1 ELSE 12
        year == shs[pk].year
        found == {p \in DOMAIN shs : shs[p].month = month /\ shs[p].year = year}
    IN IF found = {} THEN None ELSE Some(CHOOSE p \in found : TRUE)

\* Sheet.previous: Some(pk of the sheet of the month before) or None.
Sheet_previous(shs, pk) ==
    LET month == IF shs[pk].month > 1 THEN shs[pk].month - 1 ELSE 12
        year == IF shs[pk].month > 1 THEN shs[pk].year ELSE shs[pk].year - 1
        found == {p \in DOMAIN shs : shs[p].month = month /\ shs[p].year = year}
    IN IF found = {} THEN None ELSE Some(CHOOSE p \in found : TRUE)

\* Sheet.__get_sum_of_inflows: Python's sum() over the positive values, 0 if none.
Sheet_get_sum_of_inflows(shs, txs, pk) ==
    SumValues(txs, {t \in Sheet_transactions(shs, txs, pk) : txs[t].value > 0})

\* Sheet.__get_sum_of_budgets: the aggregate over sheetentry_set (None if empty).
Sheet_get_sum_of_budgets(ents, pk) ==
    AggregateSum(ents, {e \in DOMAIN ents : ents[e].sheet = pk})

\* The outcome of a property read: a Decimal, or the TypeError Python raises when
\* None takes part in the arithmetic.
Decimal(v) == [raised |-> "", value |-> v]

TypeError == [raised |-> "TypeError", value |-> 0]

\* Python's a - b and a + b, where either operand may be None or a raised error.
Minus(a, b) ==
    IF a = None \/ b = None THEN TypeError ELSE Decimal(Value(a) - Value(b))

Plus(r, s) ==
    IF r.raised # "" THEN r
    ELSE IF s.raised # "" THEN s
    ELSE Decimal(r.value + s.value)

\* Sheet.available
RECURSIVE Sheet_available(_, _, _, _)
\* Sheet.available without the early return of the stored carryover.
Sheet_available_NoEarlyReturn(shs, ents, txs, pk) ==
    LET previous == Sheet_previous(shs, pk)
        own == Minus(Some(Sheet_get_sum_of_inflows(shs, txs, pk)),
                     Sheet_get_sum_of_budgets(ents, pk))
    IN IF previous # None
       THEN (IF own.raised # "" THEN own
             ELSE Plus(own, Sheet_available(shs, ents, txs, Value(previous))))
       ELSE own

Sheet_available(shs, ents, txs, pk) ==
    IF shs[pk].carryover # None THEN Decimal(Value(shs[pk].carryover))
    ELSE LET previous == Sheet_previous(shs, pk)
             own == Minus(Some(Sheet_get_sum_of_inflows(shs, txs, pk)),
                          Sheet_get_sum_of_budgets(ents, pk))
         IN IF previous # None
            THEN (IF own.raised # "" THEN own
                  ELSE Plus(own, Sheet_available(shs, ents, txs, Value(previous))))
            ELSE own

(***************************************************************************)
(* Account.total                                                           *)
(***************************************************************************)
\* Account.__get_transaction_total without .filter(locked=False).
Account_get_transaction_total_AnyLock(txs, pk) ==
    LET aggregated == AggregateSum(txs, {t \in DOMAIN txs : txs[t].account = pk})
    IN IF aggregated # None THEN Value(aggregated) ELSE 0

\* Account.__get_transaction_total
Account_get_transaction_total(txs, pk) ==
    LET aggregated == AggregateSum(txs,
            {t \in DOMAIN txs : txs[t].account = pk /\ txs[t].locked = FALSE})
    IN IF aggregated # None THEN Value(aggregated) ELSE 0

\* Account.total
Account_total(accs, txs, pk) == accs[pk].balance + Account_get_transaction_total(txs, pk)

(***************************************************************************)
(* The validation gate: Transaction.clean and SheetEntry.clean.            *)
(* self_pk is None for an instance that was never saved.  The result is    *)
(* the message of the ValidationError raised, or NoError.                  *)
(***************************************************************************)
NoError == ""

Transaction_LOCKABLE_FIELDS == <<"partner", "date", "value", "category", "account">>

SheetEntry_LOCKABLE_FIELDS == <<"sheet", "category", "value">>

\* The loop over the lockable fields: the first field whose value differs raises.
FirstChanged(fields, previous_state, self) ==
    LET changed == {i \in 1..Len(fields) : previous_state[fields[i]] # self[fields[i]]}
    IN IF changed = {} THEN None ELSE Some(fields[Min(changed)])

\* Transaction.clean with the comparison inverted (== for !=): it raises on the
\* first lockable field that kept its value.
Transaction_clean_Inverted(txs, self_pk, self) ==
    IF self_pk # None /\ self.locked
    THEN LET previous_state == txs[Value(self_pk)]
             same == {i \in 1..Len(Transaction_LOCKABLE_FIELDS) :
                        previous_state[Transaction_LOCKABLE_FIELDS[i]]
                            = self[Transaction_LOCKABLE_FIELDS[i]]}
         IN IF same # {} THEN "Field was changed on locked transaction." ELSE NoError
    ELSE NoError

Transaction_clean(txs, self_pk, self) ==
    IF self_pk # None /\ self.locked
    THEN LET previous_state == txs[Value(self_pk)]
             field == FirstChanged(Transaction_LOCKABLE_FIELDS, previous_state, self)
         IN IF field # None THEN "Field " \o Value(field) \o " was changed on locked transaction."
            ELSE NoError
    ELSE NoError

SheetEntry_clean(ents, self_pk, self) ==
    IF self_pk # None /\ self.locked
    THEN LET previous_state == ents[Value(self_pk)]
             field == FirstChanged(SheetEntry_LOCKABLE_FIELDS, previous_state, self)
         IN IF field # None THEN "Field " \o Value(field) \o " was changed on locked sheet entry."
            ELSE NoError
    ELSE NoError

(***************************************************************************)
(* The post_save hooks.                                                    *)
(***************************************************************************)
\* One SheetEntry(sheet, category, value=Decimal(0)).save() per element of todo,
\* in primary-key order; todo holds <<sheet, category>> pairs.
RECURSIVE SaveZeroEntries(_, _)
SaveZeroEntries(ents, todo) ==
    IF todo = <<>> THEN ents
    ELSE SaveZeroEntries(
            Save(ents, NextPk(ents),
                 [sheet |-> Head(todo)[1], category |-> Head(todo)[2],
                  value |-> 0, locked |-> FALSE]),
            Tail(todo))

\* The elements of a set of primary keys in ascending order.
RECURSIVE Ascending(_)
Ascending(S) == IF S = {} THEN <<>> ELSE <<Min(S)>> \o Ascending(S \ {Min(S)})

\* initialize_sheet_with_entries with the raw test inverted (created and raw).
initialize_sheet_with_entries_OnlyRaw(ents, cats, instance, created, raw) ==
    IF created /\ raw
    THEN LET all == Ascending(DOMAIN cats)
         IN SaveZeroEntries(ents, [i \in 1..Len(all) |-> <<instance, all[i]>>])
    ELSE ents

\* initialize_sheet_with_entries that leaves out the first category.
initialize_sheet_with_entries_NotFirst(ents, cats, instance, created, raw) ==
    IF created /\ ~raw
    THEN LET all == Ascending(DOMAIN cats)
         IN SaveZeroEntries(ents, [i \in 2..Len(all) |-> <<instance, all[i]>>])
    ELSE ents

\* initialize_sheet_with_entries without the test of created and raw.
initialize_sheet_with_entries_Always(ents, cats, instance, created, raw) ==
    LET all == Ascending(DOMAIN cats)
    IN SaveZeroEntries(ents, [i \in 1..Len(all) |-> <<instance, all[i]>>])

\* initialize_sheet_with_entries(instance, created, raw)
initialize_sheet_with_entries(ents, cats, instance, created, raw) ==
    IF created /\ ~raw
    THEN LET all == Ascending(DOMAIN cats)
         IN SaveZeroEntries(ents, [i \in 1..Len(all) |-> <<instance, all[i]>>])
    ELSE ents

\* create_sheet_entries_on_category_creation over Sheet.objects.all(), without
\* the carryover__isnull filter.
create_sheet_entries_on_category_creation_AllSheets(ents, shs, instance, created, raw) ==
    IF created /\ ~raw
    THEN LET all == Ascending(DOMAIN shs)
         IN SaveZeroEntries(ents, [i \in 1..Len(all) |-> <<all[i], instance>>])
    ELSE ents

\* create_sheet_entries_on_category_creation(instance, created, raw)
create_sheet_entries_on_category_creation(ents, shs, instance, created, raw) ==
    IF created /\ ~raw
    THEN LET open == Ascending({s \in DOMAIN shs : shs[s].carryover = None})
         IN SaveZeroEntries(ents, [i \in 1..Len(open) |-> <<open[i], instance>>])
    ELSE ents

(***************************************************************************)
(* Operations on the store.  Every operation records in last what it was,  *)
(* the row it was about, whether it was accepted, and the locked flag the  *)
(* store held for that row when the operation began (for the deletion of a *)
(* sheet or category: whether a locked entry went with it).                *)
(***************************************************************************)
\* No available or total computation has begun.  A computation in progress is
\* at pc, on the sheet instance self of the chain that began at target; sum is
\* what the sheets before self in the chain contributed, snapshots the values
\* of the property in the store states the computation has run through, and
\* writes the number of operations that changed the store meanwhile.
NoRead ==
    [pc |-> "idle", property |-> "", target |-> 0, self |-> 0, has_previous |-> FALSE,
     inflows |-> 0, sum |-> 0, result |-> Decimal(0), snapshots |-> {}, writes |-> 0]

\* The callers that edit stored rows side by side, and what a caller holds
\* between full_clean() and save(): the row it validated (self, for the stored
\* row pk of model) and the locked flag the store held when it validated.
Callers == {"A", "B"}

NoEdit == [pc |-> "idle", model |-> "", pk |-> 0, self |-> <<>>, saw_locked |-> FALSE]

Records ==
    Cardinality(DOMAIN categories) + Cardinality(DOMAIN accounts)
        + Cardinality(DOMAIN sheets) + Cardinality(DOMAIN transactions)

\* The bounds let a row be added to table, and leave the entries within theirs.
Room(table, ents) ==
    /\ Records < MaxRecords
    /\ NextPk(table) <= MaxRecords
    /\ Cardinality(DOMAIN ents) <= MaxEntries
    /\ \A e \in DOMAIN ents : e <= MaxEntryPk

Done(op, pk, ok, was_locked) ==
    [op |-> op, pk |-> pk, ok |-> ok, was_locked |-> was_locked,
     error |-> IF ok THEN "" ELSE "ValidationError"]

\* The record of an operation that raised an error of the store.
Raised(op, pk, error) ==
    [op |-> op, pk |-> pk, ok |-> FALSE, was_locked |-> FALSE, error |-> error]

\* table without the rows pks (Model.delete, and the rows a cascade takes along).
Remove(table, pks) == [k \in DOMAIN table \ pks |-> table[k]]

Init ==
    /\ categories = <<>>
    /\ accounts = <<>>
    /\ sheets = <<>>
    /\ entries = <<>>
    /\ transactions = <<>>
    /\ last = Done("init", 0, TRUE, FALSE)
    /\ read = NoRead
    /\ pending = [c \in Callers |-> NoEdit]

\* Sheet without its unique_together: every new row is accepted.
Sheet_unique_together_Off(shs, month, year) == TRUE

\* Meta.unique_together = ('month', 'year') of Sheet: a new row is accepted when
\* no stored sheet has its month and year.
Sheet_unique_together(shs, month, year) ==
    ~\E s \in DOMAIN shs : shs[s].month = month /\ shs[s].year = year

\* Category(name=...).save() of a new category, and its post_save hook.
CreateCategory(name) ==
    LET pk == NextPk(categories)
        synthesized == create_sheet_entries_on_category_creation(entries, sheets, pk, TRUE, FALSE)
    IN /\ Room(categories, synthesized)
       /\ categories' = Save(categories, pk, [name |-> name])
       /\ entries' = synthesized
       /\ last' = Done("CreateCategory", pk, TRUE, FALSE)
       /\ UNCHANGED <<accounts, sheets, transactions>>

\* Account(name=..., balance=...).save() of a new account.
CreateAccount(name, balance) ==
    LET pk == NextPk(accounts)
    IN /\ Room(accounts, entries)
       /\ accounts' = Save(accounts, pk, [name |-> name, balance |-> balance])
       /\ last' = Done("CreateAccount", pk, TRUE, FALSE)
       /\ UNCHANGED <<categories, sheets, entries, transactions>>

\* Sheet(month=..., year=..., carryover=...).save() of a new sheet, and its
\* post_save hook; unique_together rejects a (month, year) that is stored.
CreateSheet(month, year, carryover) ==
    LET pk == NextPk(sheets)
        taken == ~Sheet_unique_together(sheets, month, year)
        synthesized == initialize_sheet_with_entries(entries, categories, pk, TRUE, FALSE)
    IN /\ Room(sheets, synthesized)
       /\ IF taken
          THEN /\ last' = Raised("CreateSheet", 0, "IntegrityError")
               /\ UNCHANGED store
          ELSE /\ sheets' = Save(sheets, pk, [month |-> month, year |-> year,
                                               carryover |-> carryover])
               /\ entries' = synthesized
               /\ last' = Done("CreateSheet", pk, TRUE, FALSE)
               /\ UNCHANGED <<categories, accounts, transactions>>

\* sheet.carryover = ...; sheet.save() of a stored sheet: created is False, so
\* the hook synthesizes nothing.
SaveSheet(pk, carryover) ==
    /\ pk \in DOMAIN sheets
    /\ sheets' = Save(sheets, pk, [sheets[pk] EXCEPT !.carryover = carryover])
    /\ entries' = initialize_sheet_with_entries(entries, categories, pk, FALSE, FALSE)
    /\ last' = Done("SaveSheet", pk, TRUE, FALSE)
    /\ UNCHANGED <<categories, accounts, transactions>>

\* category.name = ...; category.save() of a stored category: created is False,
\* so the hook synthesizes nothing.
SaveCategory(pk, name) ==
    /\ pk \in DOMAIN categories
    /\ categories' = Save(categories, pk, [categories[pk] EXCEPT !.name = name])
    /\ entries' = create_sheet_entries_on_category_creation(entries, sheets, pk, FALSE, FALSE)
    /\ last' = Done("SaveCategory", pk, TRUE, FALSE)
    /\ UNCHANGED <<accounts, sheets, transactions>>

\* A new sheet loaded from a fixture: the row is saved and post_save is sent with
\* created = True and raw = True.  The unique constraint holds for it as well.
LoadRawSheet(month, year, carryover) ==
    LET pk == NextPk(sheets)
        taken == ~Sheet_unique_together(sheets, month, year)
    IN /\ Room(sheets, entries)
       /\ IF taken
          THEN /\ last' = Raised("LoadRawSheet", 0, "IntegrityError")
               /\ UNCHANGED store
          ELSE /\ sheets' = Save(sheets, pk, [month |-> month, year |-> year,
                                               carryover |-> carryover])
               /\ entries' = initialize_sheet_with_entries(entries, categories, pk, TRUE, TRUE)
               /\ last' = Done("LoadRawSheet", pk, TRUE, FALSE)
               /\ UNCHANGED <<categories, accounts, transactions>>

\* A new category loaded from a fixture (created = True, raw = True).
LoadRawCategory(name) ==
    LET pk == NextPk(categories)
    IN /\ Room(categories, entries)
       /\ categories' = Save(categories, pk, [name |-> name])
       /\ entries' = create_sheet_entries_on_category_creation(entries, sheets, pk, TRUE, TRUE)
       /\ last' = Done("LoadRawCategory", pk, TRUE, FALSE)
       /\ UNCHANGED <<accounts, sheets, transactions>>

\* Sheet.save() of a new sheet whose hook fails: the sheet row is saved, post_save
\* runs the hook, the hook saves saved entries and the next SheetEntry.save()
\* raises.  Nothing in models.py opens a transaction around the save and its hook.
CreateSheetHookFails(month, year, carryover, saved) ==
    LET pk == NextPk(sheets)
        taken == ~Sheet_unique_together(sheets, month, year)
        all == Ascending(DOMAIN categories)
    IN /\ saved \in 0..(Len(all) - 1)
       /\ Room(sheets, SaveZeroEntries(entries, [i \in 1..saved |-> <<pk, all[i]>>]))
       /\ ~taken
       /\ sheets' = Save(sheets, pk, [month |-> month, year |-> year,
                                       carryover |-> carryover])
       /\ entries' = SaveZeroEntries(entries, [i \in 1..saved |-> <<pk, all[i]>>])
       /\ last' = Raised("CreateSheet", pk, "DatabaseError")
       /\ UNCHANGED <<categories, accounts, transactions>>

\* Category.save() of a new category whose hook fails after saved entries.
CreateCategoryHookFails(name, saved) ==
    LET pk == NextPk(categories)
        open == Ascending({s \in DOMAIN sheets : sheets[s].carryover = None})
    IN /\ saved \in 0..(Len(open) - 1)
       /\ Room(categories, SaveZeroEntries(entries, [i \in 1..saved |-> <<open[i], pk>>]))
       /\ categories' = Save(categories, pk, [name |-> name])
       /\ entries' = SaveZeroEntries(entries, [i \in 1..saved |-> <<open[i], pk>>])
       /\ last' = Raised("CreateCategory", pk, "DatabaseError")
       /\ UNCHANGED <<accounts, sheets, transactions>>

\* category.delete() without the PROTECT of Transaction.category: the category
\* and its entries go whatever references it.
DeleteCategory_NoProtect(pk) ==
    /\ pk \in DOMAIN categories
    /\ categories' = Remove(categories, {pk})
    /\ entries' = Remove(entries, {e \in DOMAIN entries : entries[e].category = pk})
    /\ last' = Done("DeleteCategory", pk, TRUE, FALSE)
    /\ UNCHANGED <<accounts, sheets, transactions>>

\* category.delete(): on_delete=PROTECT of Transaction.category raises
\* ProtectedError while a transaction references the category; otherwise the
\* category goes, and on_delete=CASCADE of SheetEntry.category takes its entries.
DeleteCategory(pk) ==
    /\ pk \in DOMAIN categories
    /\ IF \E t \in DOMAIN transactions : transactions[t].category = pk
       THEN /\ last' = Raised("DeleteCategory", pk, "ProtectedError")
            /\ UNCHANGED store
       ELSE /\ categories' = Remove(categories, {pk})
            /\ entries' = Remove(entries, {e \in DOMAIN entries : entries[e].category = pk})
            /\ last' = Done("DeleteCategory", pk, TRUE,
                             \E e \in DOMAIN entries :
                                 entries[e].category = pk /\ entries[e].locked)
            /\ UNCHANGED <<accounts, sheets, transactions>>

\* account.delete(): on_delete=PROTECT of Transaction.account.
DeleteAccount(pk) ==
    /\ pk \in DOMAIN accounts
    /\ IF \E t \in DOMAIN transactions : transactions[t].account = pk
       THEN /\ last' = Raised("DeleteAccount", pk, "ProtectedError")
            /\ UNCHANGED store
       ELSE /\ accounts' = Remove(accounts, {pk})
            /\ last' = Done("DeleteAccount", pk, TRUE, FALSE)
            /\ UNCHANGED <<categories, sheets, entries, transactions>>

\* sheet.delete() without the CASCADE of SheetEntry.sheet.
DeleteSheet_NoCascade(pk) ==
    /\ pk \in DOMAIN sheets
    /\ sheets' = Remove(sheets, {pk})
    /\ last' = Done("DeleteSheet", pk, TRUE, FALSE)
    /\ UNCHANGED <<categories, accounts, entries, transactions>>

\* sheet.delete(): on_delete=CASCADE of SheetEntry.sheet takes its entries.
DeleteSheet(pk) ==
    /\ pk \in DOMAIN sheets
    /\ sheets' = Remove(sheets, {pk})
    /\ entries' = Remove(entries, {e \in DOMAIN entries : entries[e].sheet = pk})
    /\ last' = Done("DeleteSheet", pk, TRUE,
                     \E e \in DOMAIN entries : entries[e].sheet = pk /\ entries[e].locked)
    /\ UNCHANGED <<categories, accounts, transactions>>

\* transaction.delete() refused for a locked transaction.
DeleteTransaction_ProtectLocked(pk) ==
    /\ pk \in DOMAIN transactions
    /\ IF transactions[pk].locked
       THEN /\ last' = Done("DeleteTransaction", pk, FALSE, TRUE)
            /\ UNCHANGED store
       ELSE /\ transactions' = Remove(transactions, {pk})
            /\ last' = Done("DeleteTransaction", pk, TRUE, FALSE)
            /\ UNCHANGED <<categories, accounts, sheets, entries>>

\* transaction.delete(): no foreign key references a transaction and delete()
\* does not run clean().
DeleteTransaction(pk) ==
    /\ pk \in DOMAIN transactions
    /\ transactions' = Remove(transactions, {pk})
    /\ last' = Done("DeleteTransaction", pk, TRUE, transactions[pk].locked)
    /\ UNCHANGED <<categories, accounts, sheets, entries>>

\* The rows a Transaction / SheetEntry form can submit: the foreign keys name
\* stored rows.
TransactionRows ==
    [partner : Partners, date : Dates, value : TransactionValues,
     category : DOMAIN categories, account : DOMAIN accounts, locked : BOOLEAN]

SheetEntryRows ==
    [sheet : DOMAIN sheets, category : DOMAIN categories, value : EntryValues,
     locked : BOOLEAN]

\* full_clean() and save() of a new transaction (pk is None: no lock check).
CreateTransaction(self) ==
    LET pk == NextPk(transactions)
        error == Transaction_clean(transactions, None, self)
    IN /\ Room(transactions, entries)
       /\ self \in TransactionRows
       /\ IF error = NoError
          THEN transactions' = Save(transactions, pk, self)
          ELSE UNCHANGED transactions
       /\ last' = Done("CreateTransaction", pk, error = NoError, FALSE)
       /\ UNCHANGED <<categories, accounts, sheets, entries>>

\* UpdateTransaction with save() called whatever full_clean() raised.
UpdateTransaction_SaveUnvalidated(pk, self) ==
    LET error == Transaction_clean(transactions, Some(pk), self)
    IN /\ pk \in DOMAIN transactions
       /\ self \in TransactionRows
       /\ transactions' = Save(transactions, pk, self)
       /\ last' = Done("UpdateTransaction", pk, error = NoError, transactions[pk].locked)
       /\ UNCHANGED <<categories, accounts, sheets, entries>>

\* full_clean() of a changed stored transaction, and save() if it raised nothing.
UpdateTransaction(pk, self) ==
    LET error == Transaction_clean(transactions, Some(pk), self)
    IN /\ pk \in DOMAIN transactions
       /\ self \in TransactionRows
       /\ IF error = NoError
          THEN transactions' = Save(transactions, pk, self)
          ELSE UNCHANGED transactions
       /\ last' = Done("UpdateTransaction", pk, error = NoError, transactions[pk].locked)
       /\ UNCHANGED <<categories, accounts, sheets, entries>>

\* full_clean() of a changed stored sheet entry, and save() if it raised nothing.
UpdateSheetEntry(pk, self) ==
    LET error == SheetEntry_clean(entries, Some(pk), self)
    IN /\ pk \in DOMAIN entries
       /\ self \in SheetEntryRows
       /\ IF error = NoError
          THEN entries' = Save(entries, pk, self)
          ELSE UNCHANGED entries
       /\ last' = Done("UpdateSheetEntry", pk, error = NoError, entries[pk].locked)
       /\ UNCHANGED <<categories, accounts, sheets, transactions>>

Next ==
    \/ \E name \in CategoryNames : CreateCategory(name) /\ UNCHANGED <<read, pending>>
    \/ \E name \in AccountNames, balance \in Balances : CreateAccount(name, balance) /\ UNCHANGED <<read, pending>>
    \/ \E my \in SheetMonths, carryover \in {None} \cup {Some(c) : c \in Carryovers} :
          CreateSheet(my[1], my[2], carryover) /\ UNCHANGED <<read, pending>>
    \/ \E pk \in DOMAIN sheets, carryover \in {None} \cup {Some(c) : c \in Carryovers} :
          SaveSheet(pk, carryover) /\ UNCHANGED <<read, pending>>
    \/ \E self \in TransactionRows : CreateTransaction(self) /\ UNCHANGED <<read, pending>>
    \/ \E pk \in DOMAIN transactions, self \in TransactionRows : UpdateTransaction(pk, self) /\ UNCHANGED <<read, pending>>
    \/ \E pk \in DOMAIN entries, self \in SheetEntryRows : UpdateSheetEntry(pk, self) /\ UNCHANGED <<read, pending>>

Spec == Init /\ [][Next]_vars

(***************************************************************************)
(* The life cycle of the rows, in two specifications over the same         *)
(* actions.  SpecSave: creations, saves of stored sheets and categories,   *)
(* fixture loads, and creations whose hook fails.  SpecDelete: creations,  *)
(* updates and deletions.  Transactions and entries are here created and   *)
(* updated with one partner, date and value; their foreign keys and their  *)
(* lock vary.                                                              *)
(***************************************************************************)
LifeTransactionRows ==
    {r \in TransactionRows : r.partner = "a" /\ r.date = <<2020, 1, 31>> /\ r.value = 300}

LifeSheetEntryRows == {r \in SheetEntryRows : r.value = 0}

LifeMonths == {<<1, 2020>>, <<2, 2020>>}

\* Saves, fixture loads and failing hooks.
NextSave ==
    \/ \E name \in CategoryNames : CreateCategory(name) /\ UNCHANGED <<read, pending>>
    \/ \E my \in LifeMonths, carryover \in {None} \cup {Some(c) : c \in Carryovers} :
          CreateSheet(my[1], my[2], carryover) /\ UNCHANGED <<read, pending>>
    \/ \E pk \in DOMAIN sheets, carryover \in {None} \cup {Some(c) : c \in Carryovers} :
          SaveSheet(pk, carryover) /\ UNCHANGED <<read, pending>>
    \/ \E pk \in DOMAIN categories, name \in NewCategoryNames : SaveCategory(pk, name) /\ UNCHANGED <<read, pending>>
    \/ \E my \in LifeMonths, carryover \in {None} \cup {Some(c) : c \in Carryovers} :
          LoadRawSheet(my[1], my[2], carryover) /\ UNCHANGED <<read, pending>>
    \/ \E name \in CategoryNames : LoadRawCategory(name) /\ UNCHANGED <<read, pending>>
    \/ \E my \in LifeMonths, carryover \in {None} \cup {Some(c) : c \in Carryovers},
          saved \in 0..MaxEntries : CreateSheetHookFails(my[1], my[2], carryover, saved) /\ UNCHANGED <<read, pending>>
    \/ \E name \in CategoryNames, saved \in 0..MaxEntries : CreateCategoryHookFails(name, saved) /\ UNCHANGED <<read, pending>>

SpecSave == Init /\ [][NextSave]_vars

\* Creations, updates and deletions.
NextDelete ==
    \/ \E name \in CategoryNames : CreateCategory(name) /\ UNCHANGED <<read, pending>>
    \/ \E name \in AccountNames, balance \in Balances : CreateAccount(name, balance) /\ UNCHANGED <<read, pending>>
    \/ \E my \in LifeMonths, carryover \in {None} \cup {Some(c) : c \in Carryovers} :
          CreateSheet(my[1], my[2], carryover) /\ UNCHANGED <<read, pending>>
    \/ \E self \in LifeTransactionRows : CreateTransaction(self) /\ UNCHANGED <<read, pending>>
    \/ \E pk \in DOMAIN transactions, self \in LifeTransactionRows : UpdateTransaction(pk, self) /\ UNCHANGED <<read, pending>>
    \/ \E pk \in DOMAIN entries, self \in LifeSheetEntryRows : UpdateSheetEntry(pk, self) /\ UNCHANGED <<read, pending>>
    \/ \E pk \in DOMAIN categories : DeleteCategory(pk) /\ UNCHANGED <<read, pending>>
    \/ \E pk \in DOMAIN accounts : DeleteAccount(pk) /\ UNCHANGED <<read, pending>>
    \/ \E pk \in DOMAIN sheets : DeleteSheet(pk) /\ UNCHANGED <<read, pending>>
    \/ \E pk \in DOMAIN transactions : DeleteTransaction(pk) /\ UNCHANGED <<read, pending>>

SpecDelete == Init /\ [][NextDelete]_vars

(***************************************************************************)
(* The entries the hooks keep: categories and sheets are created, and      *)
(* sheets are closed (a carryover is saved on them, never None again).  No *)
(* SheetEntry is created, changed or deleted but by the hooks.             *)
(***************************************************************************)
NextEntries ==
    \/ \E name \in CategoryNames : CreateCategory(name) /\ UNCHANGED <<read, pending>>
    \/ \E my \in SheetMonths, carryover \in {None} \cup {Some(c) : c \in Carryovers} :
          CreateSheet(my[1], my[2], carryover) /\ UNCHANGED <<read, pending>>
    \/ \E pk \in DOMAIN sheets, c \in Carryovers : SaveSheet(pk, Some(c)) /\ UNCHANGED <<read, pending>>

SpecEntries == Init /\ [][NextEntries]_vars

(***************************************************************************)
(* Sheet.transactions over the calendar: one open sheet, one category, one *)
(* account and two unlocked transactions are stored; the month of the      *)
(* sheet and the dates of the transactions range over a leap and a common  *)
(* year, and the transactions are dated anew.                              *)
(***************************************************************************)
\* (month, year) of the sheet.
CalendarMonths == {<<2, 2019>>, <<1, 2020>>, <<2, 2020>>, <<3, 2020>>}

\* Dates a transaction can carry (every one a date of the calendar).
CalendarDates ==
    {<<2019, 1, 31>>, <<2019, 2, 1>>, <<2019, 2, 28>>, <<2019, 3, 1>>,
     <<2020, 1, 1>>, <<2020, 1, 31>>, <<2020, 2, 1>>, <<2020, 2, 28>>,
     <<2020, 2, 29>>, <<2020, 3, 1>>, <<2020, 3, 31>>, <<2021, 2, 28>>}

InitMonth ==
    /\ categories = Save(<<>>, 1, [name |-> "food"])
    /\ accounts = Save(<<>>, 1, [name |-> "cash", balance |-> 1000])
    /\ \E my \in CalendarMonths :
          sheets = Save(<<>>, 1, [month |-> my[1], year |-> my[2], carryover |-> None])
    /\ entries = initialize_sheet_with_entries(<<>>, categories, 1, TRUE, FALSE)
    /\ \E d1 \in CalendarDates, d2 \in CalendarDates :
          transactions =
              Save(Save(<<>>, 1, [partner |-> "a", date |-> d1, value |-> 300,
                                  category |-> 1, account |-> 1, locked |-> FALSE]),
                   2, [partner |-> "b", date |-> d2, value |-> -250,
                       category |-> 1, account |-> 1, locked |-> FALSE])
    /\ last = Done("init", 0, TRUE, FALSE)
    /\ read = NoRead
    /\ pending = [c \in Callers |-> NoEdit]

\* transaction.date = date; full_clean(); save() of a stored transaction.
RedateTransaction(pk, date) ==
    LET self == [transactions[pk] EXCEPT !.date = date]
        error == Transaction_clean(transactions, Some(pk), self)
    IN /\ pk \in DOMAIN transactions
       /\ IF error = NoError
          THEN transactions' = Save(transactions, pk, self)
          ELSE UNCHANGED transactions
       /\ last' = Done("UpdateTransaction", pk, error = NoError, transactions[pk].locked)
       /\ UNCHANGED <<categories, accounts, sheets, entries>>

NextMonth ==
    \E pk \in DOMAIN transactions, date \in CalendarDates :
        RedateTransaction(pk, date) /\ UNCHANGED <<read, pending>>

SpecMonth == InitMonth /\ [][NextMonth]_vars

(***************************************************************************)
(* One available or total computation running beside the operations of     *)
(* another caller.  Sheet.available reads the store query by query:         *)
(* self.previous, the transactions of the month, the aggregate over the     *)
(* entries, self.previous again, and then the same on the previous sheet.   *)
(* Nothing in models.py puts these queries in one database transaction, so  *)
(* an operation of another caller may commit between any two of them.       *)
(***************************************************************************)
MaxWrites == 2

AttributeError == [raised |-> "AttributeError", value |-> 0]

Reading == read.pc \notin {"idle", "done"}

\* The computation returns (or raises) result.
Return(r, result) == [r EXCEPT !.pc = "done", !.result = result]

\* available on the instance of sheet s as just loaded: the stored carryover
\* if it is set, else on to the queries of that sheet.
Enter(r, s) ==
    IF sheets[s].carryover # None
    THEN Return(r, Decimal(r.sum + Value(sheets[s].carryover)))
    ELSE [r EXCEPT !.pc = "previous", !.self = s]

InitRead ==
    /\ categories = Save(<<>>, 1, [name |-> "food"])
    /\ accounts = Save(<<>>, 1, [name |-> "cash", balance |-> 1000])
    /\ sheets = Save(Save(<<>>, 1, [month |-> 1, year |-> 2020, carryover |-> None]),
                     2, [month |-> 2, year |-> 2020, carryover |-> None])
    /\ entries = initialize_sheet_with_entries(
                     initialize_sheet_with_entries(<<>>, categories, 1, TRUE, FALSE),
                     categories, 2, TRUE, FALSE)
    /\ transactions = Save(<<>>, 1, [partner |-> "a", date |-> <<2020, 1, 31>>,
                                    value |-> 300, category |-> 1, account |-> 1,
                                    locked |-> FALSE])
    /\ last = Done("init", 0, TRUE, FALSE)
    /\ read = NoRead
    /\ pending = [c \in Callers |-> NoEdit]

\* sheet = Sheet.objects.get(pk=s); sheet.available: the computation begins.
BeginAvailable(s) ==
    /\ read.pc = "idle"
    /\ s \in DOMAIN sheets
    /\ read' = Enter([NoRead EXCEPT
                         !.property = "available", !.target = s,
                         !.snapshots = {Sheet_available(sheets, entries, transactions, s)}],
                     s)
    /\ UNCHANGED <<store, last>>

\* `if self.previous is not None`: the first query for the previous sheet.
ReadPrevious ==
    /\ read.pc = "previous"
    /\ read' = [read EXCEPT !.pc = "inflows",
                            !.has_previous = Sheet_previous(sheets, read.self) # None]
    /\ UNCHANGED <<store, last>>

\* self.__get_sum_of_inflows(): the query for the transactions of the month.
ReadInflows ==
    /\ read.pc = "inflows"
    /\ read' = [read EXCEPT !.pc = "budgets",
                            !.inflows = Sheet_get_sum_of_inflows(sheets, transactions,
                                                                 read.self)]
    /\ UNCHANGED <<store, last>>

\* self.__get_sum_of_budgets(): the aggregate over the entries, and the
\* subtraction; without a previous sheet that is the result.
ReadBudgets ==
    LET own == Minus(Some(read.inflows), Sheet_get_sum_of_budgets(entries, read.self))
    IN /\ read.pc = "budgets"
       /\ read' = IF own.raised # "" THEN Return(read, own)
                  ELSE IF ~read.has_previous
                       THEN Return(read, Decimal(read.sum + own.value))
                       ELSE [read EXCEPT !.pc = "previous_available",
                                         !.sum = @ + own.value]
       /\ UNCHANGED <<store, last>>

\* self.previous.available: the second query for the previous sheet, and
\* available on the instance it loads.
ReadPreviousAvailable ==
    LET previous == Sheet_previous(sheets, read.self)
    IN /\ read.pc = "previous_available"
       /\ read' = IF previous = None THEN Return(read, AttributeError)
                  ELSE Enter(read, Value(previous))
       /\ UNCHANGED <<store, last>>

\* account.total: the balance of the instance and one aggregate query.
ReadTotal(a) ==
    /\ read.pc = "idle"
    /\ a \in DOMAIN accounts
    /\ read' = Return([NoRead EXCEPT
                          !.property = "total", !.target = a,
                          !.snapshots = {Decimal(Account_total(accounts, transactions, a))}],
                      Decimal(Account_total(accounts, transactions, a)))
    /\ UNCHANGED <<store, last>>

\* An operation of another caller commits: while a computation runs, the store
\* state it leaves is one more state the computation has run through.
Observe ==
    /\ Reading => read.writes < MaxWrites
    /\ read' = IF Reading
               THEN [read EXCEPT
                        !.writes = @ + 1,
                        !.snapshots = @ \cup {Sheet_available(sheets', entries',
                                                              transactions', read.target)}]
               ELSE read

\* What the other caller submits here: the date and the value of the
\* transaction, the value of an entry, the carryover of a sheet.
ReadTransactionRows == {r \in TransactionRows : r.partner = "a" /\ ~r.locked}

ReadSheetEntryRows(pk) ==
    {r \in SheetEntryRows : r.sheet = entries[pk].sheet /\ ~r.locked}

NextRead ==
    \/ \E s \in DOMAIN sheets : BeginAvailable(s) /\ UNCHANGED pending
    \/ ReadPrevious /\ UNCHANGED pending
    \/ ReadInflows /\ UNCHANGED pending
    \/ ReadBudgets /\ UNCHANGED pending
    \/ ReadPreviousAvailable /\ UNCHANGED pending
    \/ \E a \in DOMAIN accounts : ReadTotal(a) /\ UNCHANGED pending
    \/ \E pk \in DOMAIN transactions, self \in ReadTransactionRows :
          UpdateTransaction(pk, self) /\ Observe /\ UNCHANGED pending
    \/ \E pk \in DOMAIN entries : \E self \in ReadSheetEntryRows(pk) :
          UpdateSheetEntry(pk, self) /\ Observe /\ UNCHANGED pending
    \/ \E pk \in DOMAIN sheets, carryover \in {None} \cup {Some(c) : c \in Carryovers} :
          SaveSheet(pk, carryover) /\ Observe /\ UNCHANGED pending

SpecRead == InitRead /\ [][NextRead]_vars

(***************************************************************************)
(* Two callers editing the same stored rows.  An edit is full_clean(),     *)
(* whose clean() reads the stored row, and then save(), which writes every *)
(* field of the instance.  Nothing in models.py holds the row between the  *)
(* two (no select_for_update, no version check), so the steps of another   *)
(* caller may come between them.                                           *)
(***************************************************************************)
InitEdit ==
    /\ categories = Save(<<>>, 1, [name |-> "food"])
    /\ accounts = Save(<<>>, 1, [name |-> "cash", balance |-> 1000])
    /\ sheets = Save(<<>>, 1, [month |-> 1, year |-> 2020, carryover |-> None])
    /\ entries = initialize_sheet_with_entries(<<>>, categories, 1, TRUE, FALSE)
    /\ transactions = Save(<<>>, 1, [partner |-> "a", date |-> <<2020, 1, 31>>,
                                    value |-> 300, category |-> 1, account |-> 1,
                                    locked |-> FALSE])
    /\ last = Done("init", 0, TRUE, FALSE)
    /\ read = NoRead
    /\ pending = [c \in Callers |-> NoEdit]

\* Caller c: transaction.full_clean() of a changed stored transaction.  If
\* clean() raises, the edit ends rejected; else c goes on to save().
ValidateTransaction(c, pk, self) ==
    LET error == Transaction_clean(transactions, Some(pk), self)
    IN /\ pending[c].pc = "idle"
       /\ pk \in DOMAIN transactions
       /\ self \in TransactionRows
       /\ IF error = NoError
          THEN /\ pending' = [pending EXCEPT ![c] =
                                [pc |-> "validated", model |-> "Transaction", pk |-> pk,
                                 self |-> self, saw_locked |-> transactions[pk].locked]]
               /\ UNCHANGED last
          ELSE /\ last' = Done("UpdateTransaction", pk, FALSE, transactions[pk].locked)
               /\ UNCHANGED pending
       /\ UNCHANGED store

\* Caller c: transaction.save() of the instance it validated.
CommitTransaction(c) ==
    /\ pending[c].pc = "validated"
    /\ pending[c].model = "Transaction"
    /\ transactions' = Save(transactions, pending[c].pk, pending[c].self)
    /\ last' = Done("UpdateTransaction", pending[c].pk, TRUE,
                    transactions[pending[c].pk].locked)
    /\ pending' = [pending EXCEPT ![c] = NoEdit]
    /\ UNCHANGED <<categories, accounts, sheets, entries>>

\* Caller c: entry.full_clean() of a changed stored sheet entry.
ValidateSheetEntry(c, pk, self) ==
    LET error == SheetEntry_clean(entries, Some(pk), self)
    IN /\ pending[c].pc = "idle"
       /\ pk \in DOMAIN entries
       /\ self \in SheetEntryRows
       /\ IF error = NoError
          THEN /\ pending' = [pending EXCEPT ![c] =
                                [pc |-> "validated", model |-> "SheetEntry", pk |-> pk,
                                 self |-> self, saw_locked |-> entries[pk].locked]]
               /\ UNCHANGED last
          ELSE /\ last' = Done("UpdateSheetEntry", pk, FALSE, entries[pk].locked)
               /\ UNCHANGED pending
       /\ UNCHANGED store

\* Caller c: entry.save() of the instance it validated.
CommitSheetEntry(c) ==
    /\ pending[c].pc = "validated"
    /\ pending[c].model = "SheetEntry"
    /\ entries' = Save(entries, pending[c].pk, pending[c].self)
    /\ last' = Done("UpdateSheetEntry", pending[c].pk, TRUE, entries[pending[c].pk].locked)
    /\ pending' = [pending EXCEPT ![c] = NoEdit]
    /\ UNCHANGED <<categories, accounts, sheets, transactions>>

\* What the callers submit here: the value and the lock of the transaction and
\* of the entry.
EditTransactionRows ==
    {r \in TransactionRows : r.partner = "a" /\ r.date = <<2020, 1, 31>>}

NextEdit ==
    \/ \E c \in Callers, pk \in DOMAIN transactions, self \in EditTransactionRows :
          ValidateTransaction(c, pk, self) /\ UNCHANGED read
    \/ \E c \in Callers : CommitTransaction(c) /\ UNCHANGED read
    \/ \E c \in Callers, pk \in DOMAIN entries, self \in SheetEntryRows :
          ValidateSheetEntry(c, pk, self) /\ UNCHANGED read
    \/ \E c \in Callers : CommitSheetEntry(c) /\ UNCHANGED read

SpecEdit == InitEdit /\ [][NextEdit]_vars

(***************************************************************************)
(* Vocabulary of the properties.                                           *)
(***************************************************************************)
\* Some field of the list differs between the committed row and the proposed one.
Differs(fields, committed, proposed) ==
    \E i \in 1..Len(fields) : committed[fields[i]] # proposed[fields[i]]

\* The sum of the values of a set of rows, 0 over no rows.
RECURSIVE Total(_, _)
Total(table, pks) ==
    IF pks = {} THEN 0
    ELSE LET k == CHOOSE x \in pks : TRUE IN table[k].value + Total(table, pks \ {k})

\* Inflow of a sheet: the positive values of the transactions dated in its month.
Inflow(s) ==
    Total(transactions,
          {t \in DOMAIN transactions :
              /\ transactions[t].date[1] = sheets[s].year
              /\ transactions[t].date[2] = sheets[s].month
              /\ transactions[t].value > 0})

\* Budgeted amount of a sheet: the values of its entries.
Budgeted(s) == Total(entries, {e \in DOMAIN entries : entries[e].sheet = s})

IsOpen(s) == sheets[s].carryover = None

\* The stored sheets of the month before sheet s.
Predecessors(s) ==
    {p \in DOMAIN sheets :
        \/ sheets[s].month > 1 /\ sheets[p].month = sheets[s].month - 1
                              /\ sheets[p].year = sheets[s].year
        \/ sheets[s].month = 1 /\ sheets[p].month = 12
                              /\ sheets[p].year = sheets[s].year - 1}

\* What the chain of sheets ending in s leaves to budget: the carryover of a
\* closed sheet, else inflow - budgeted plus what the month before leaves.
RECURSIVE Chained(_)
Chained(s) ==
    IF ~IsOpen(s) THEN Value(sheets[s].carryover)
    ELSE Inflow(s) - Budgeted(s)
            + (IF Predecessors(s) = {} THEN 0
               ELSE Chained(CHOOSE p \in Predecessors(s) : TRUE))

(***************************************************************************)
(* C1.  A committed row with locked = TRUE rejects every update that       *)
(* changes one of its lockable fields, whatever locked value the update    *)
(* proposes (Transaction: partner, date, value, category, account;         *)
(* SheetEntry: sheet, category, value).                                    *)
(***************************************************************************)
C1_LockedChangeRejected ==
    /\ \A pk \in DOMAIN transactions, self \in TransactionRows :
          (transactions[pk].locked
              /\ Differs(Transaction_LOCKABLE_FIELDS, transactions[pk], self))
            => Transaction_clean(transactions, Some(pk), self) # NoError
    /\ \A pk \in DOMAIN entries, self \in SheetEntryRows :
          (entries[pk].locked
              /\ Differs(SheetEntry_LOCKABLE_FIELDS, entries[pk], self))
            => SheetEntry_clean(entries, Some(pk), self) # NoError

(***************************************************************************)
(* C2.  The gate decides on the committed lock flag: an update of a row    *)
(* whose committed locked is FALSE is accepted whatever it proposes, also  *)
(* when it sets locked = TRUE and changes a lockable field at once.        *)
(***************************************************************************)
C2_UnlockedAlwaysAccepted ==
    /\ \A pk \in DOMAIN transactions, self \in TransactionRows :
          ~transactions[pk].locked
            => Transaction_clean(transactions, Some(pk), self) = NoError
    /\ \A pk \in DOMAIN entries, self \in SheetEntryRows :
          ~entries[pk].locked
            => SheetEntry_clean(entries, Some(pk), self) = NoError

(***************************************************************************)
(* C3.  An update of a locked row that leaves every lockable field equal   *)
(* to its committed value is accepted, a re-save with locked still TRUE    *)
(* included.                                                               *)
(***************************************************************************)
C3_UnchangedAccepted ==
    /\ \A pk \in DOMAIN transactions, self \in TransactionRows :
          (transactions[pk].locked
              /\ ~Differs(Transaction_LOCKABLE_FIELDS, transactions[pk], self))
            => Transaction_clean(transactions, Some(pk), self) = NoError
    /\ \A pk \in DOMAIN entries, self \in SheetEntryRows :
          (entries[pk].locked
              /\ ~Differs(SheetEntry_LOCKABLE_FIELDS, entries[pk], self))
            => SheetEntry_clean(entries, Some(pk), self) = NoError

\* A locked transaction has just been saved again, still locked, and was accepted.
C3_Witness ==
    /\ last.op = "UpdateTransaction"
    /\ last.ok
    /\ last.was_locked
    /\ transactions[last.pk].locked

(***************************************************************************)
(* C4.  A rejected update commits nothing: the step in which the gate      *)
(* rejects an update of a Transaction or SheetEntry leaves every table of  *)
(* the store as it was.                                                    *)
(***************************************************************************)
C4_RejectionLeavesStore ==
    [][(last'.op \in {"UpdateTransaction", "UpdateSheetEntry"} /\ ~last'.ok)
          => store' = store]_vars

\* The gate has just rejected an update of a stored transaction.
C4_Witness ==
    /\ last.op = "UpdateTransaction"
    /\ ~last.ok
    /\ last.pk \in DOMAIN transactions

(***************************************************************************)
(* C5.  Creating a Sheet adds exactly one SheetEntry per stored Category,  *)
(* each on the new Sheet with value 0, and neither adds nor changes an     *)
(* entry of any other Sheet.                                               *)
(***************************************************************************)
C5_SheetCreationEntries ==
    [][(last'.op = "CreateSheet" /\ last'.ok /\ last'.pk \notin DOMAIN sheets)
          => LET new == DOMAIN entries' \ DOMAIN entries
             IN /\ last'.pk \in DOMAIN sheets'
                /\ DOMAIN entries \subseteq DOMAIN entries'
                /\ \A e \in DOMAIN entries : entries'[e] = entries[e]
                /\ \A e \in new : entries'[e].sheet = last'.pk /\ entries'[e].value = 0
                /\ \A c \in DOMAIN categories :
                      Cardinality({e \in new : entries'[e].category = c}) = 1
                /\ Cardinality(new) = Cardinality(DOMAIN categories)]_vars

\* A sheet has just been created while two categories were stored.
C5_Witness ==
    /\ last.op = "CreateSheet"
    /\ last.ok
    /\ Cardinality(DOMAIN categories) = 2
    /\ Cardinality({e \in DOMAIN entries : entries[e].sheet = last.pk}) = 2

(***************************************************************************)
(* C6.  Creating a Category adds exactly one zero-valued SheetEntry for    *)
(* the new Category on every Sheet whose carryover is null, and none on a  *)
(* Sheet whose carryover is set.                                           *)
(***************************************************************************)
C6_CategoryCreationEntries ==
    [][(last'.op = "CreateCategory" /\ last'.ok /\ last'.pk \notin DOMAIN categories)
          => LET new == DOMAIN entries' \ DOMAIN entries
             IN /\ last'.pk \in DOMAIN categories'
                /\ \A e \in new : entries'[e].category = last'.pk /\ entries'[e].value = 0
                /\ \A s \in DOMAIN sheets :
                      Cardinality({e \in new : entries'[e].sheet = s})
                          = IF sheets[s].carryover = None THEN 1 ELSE 0]_vars

\* A category has just been created while an open and a closed sheet were stored.
C6_Witness ==
    /\ last.op = "CreateCategory"
    /\ \E s \in DOMAIN sheets :
          /\ sheets[s].carryover = None
          /\ \E e \in DOMAIN entries : entries[e].sheet = s /\ entries[e].category = last.pk
    /\ \E s \in DOMAIN sheets : sheets[s].carryover # None

(***************************************************************************)
(* C7.  An open Sheet with no stored Sheet for the month before has        *)
(* available = inflow - budgeted.                                          *)
(***************************************************************************)
C7_AvailableNoPrevious ==
    \A s \in DOMAIN sheets :
        (IsOpen(s) /\ Predecessors(s) = {})
          => Sheet_available(sheets, entries, transactions, s)
                = Decimal(Inflow(s) - Budgeted(s))

(***************************************************************************)
(* C8.  An open Sheet whose predecessor is stored has available = inflow   *)
(* - budgeted + available(predecessor), the chain going back through the   *)
(* open predecessors to the first closed one (its carryover is used) or to *)
(* the first missing month.                                                *)
(***************************************************************************)
C8_AvailableChained ==
    \A s \in DOMAIN sheets :
        (IsOpen(s) /\ Predecessors(s) # {})
          => Sheet_available(sheets, entries, transactions, s) = Decimal(Chained(s))

(***************************************************************************)
(* C9.  While the carryover of a Sheet stays set and unchanged, available  *)
(* of that Sheet is the stored carryover after every step, whatever the    *)
(* step creates or changes among transactions, entries and other sheets.   *)
(***************************************************************************)
C9_CarryoverShortCircuit ==
    [][\A s \in DOMAIN sheets :
          (/\ sheets[s].carryover # None
           /\ s \in DOMAIN sheets'
           /\ sheets'[s].carryover = sheets[s].carryover)
            => Sheet_available(sheets', entries', transactions', s)
                  = Decimal(Value(sheets[s].carryover))]_vars

\* An entry of a closed sheet has just been given a budget, so that inflow -
\* budgeted of the sheet is not its carryover.
C9_Witness ==
    /\ last.op = "UpdateSheetEntry"
    /\ last.ok
    /\ \E s \in DOMAIN sheets :
          /\ sheets[s].carryover # None
          /\ entries[last.pk].sheet = s
          /\ entries[last.pk].value # 0
          /\ Inflow(s) - Budgeted(s) # Value(sheets[s].carryover)

(***************************************************************************)
(* C10.  Account.total is the balance plus the values of the unlocked      *)
(* transactions of that account (0 when there are none), and locking a     *)
(* transaction of value v lowers the total of its account by v.            *)
(***************************************************************************)
\* The contribution of the transactions 1..n to the total of account a.
RECURSIVE Contribution(_, _, _)
Contribution(txs, a, n) ==
    IF n = 0 THEN 0
    ELSE Contribution(txs, a, n - 1)
            + (IF n \in DOMAIN txs /\ txs[n].account = a /\ ~txs[n].locked
               THEN txs[n].value ELSE 0)

C10_TotalIsBalancePlusUnlocked ==
    \A a \in DOMAIN accounts :
        Account_total(accounts, transactions, a)
            = accounts[a].balance + Contribution(transactions, a, NextPk(transactions))

C10_LockingLowersTotal ==
    \A t \in DOMAIN transactions :
        (/\ t \in DOMAIN transactions'
         /\ ~transactions[t].locked
         /\ transactions' = [transactions EXCEPT ![t].locked = TRUE]
         /\ accounts' = accounts)
          => Account_total(accounts', transactions', transactions[t].account)
                = Account_total(accounts, transactions, transactions[t].account)
                    - transactions[t].value

C11_TransactionsOfMonth ==
    \A s \in DOMAIN sheets :
        Sheet_transactions(sheets, transactions, s)
            = {t \in DOMAIN transactions :
                  /\ transactions[t].date[1] = sheets[s].year
                  /\ transactions[t].date[2] = sheets[s].month}

\* The sheet of February 2020 holds a transaction just dated 29 February 2020,
\* and not the one of February of another year.
C11_Witness ==
    /\ last.op = "UpdateTransaction"
    /\ last.ok
    /\ \E s \in DOMAIN sheets :
          /\ sheets[s].month = 2 /\ sheets[s].year = 2020
          /\ transactions[last.pk].date = <<2020, 2, 29>>
          /\ last.pk \in Sheet_transactions(sheets, transactions, s)
          /\ \E t \in DOMAIN transactions :
                /\ transactions[t].date[2] = 2
                /\ transactions[t].date[1] # 2020
                /\ t \notin Sheet_transactions(sheets, transactions, s)

(***************************************************************************)
(* C12.  Sheet.previous is the stored sheet of (month - 1, year) when      *)
(* month > 1 and of (12, year - 1) when month = 1, and is None when no     *)
(* such sheet is stored.                                                   *)
(***************************************************************************)
C12_PreviousSheet ==
    \A s \in DOMAIN sheets :
        LET wanted == IF sheets[s].month > 1
                      THEN <<sheets[s].month - 1, sheets[s].year>>
                      ELSE <<12, sheets[s].year - 1>>
            stored == {p \in DOMAIN sheets : <<sheets[p].month, sheets[p].year>> = wanted}
        IN IF stored = {}
           THEN Sheet_previous(sheets, s) = None
           ELSE /\ Sheet_previous(sheets, s) # None
                /\ Value(Sheet_previous(sheets, s)) \in stored
                /\ Cardinality(stored) = 1

\* The sheets of January 2020 and of December 2019 are both stored, and so is a
\* sheet whose month before is not.
C12_Witness ==
    /\ \E s \in DOMAIN sheets, p \in DOMAIN sheets :
          /\ sheets[s].month = 1 /\ sheets[s].year = 2020
          /\ sheets[p].month = 12 /\ sheets[p].year = 2019
          /\ Sheet_previous(sheets, s) = Some(p)
          /\ Sheet_previous(sheets, p) = None
    /\ last.op = "CreateSheet"

(***************************************************************************)
(* C13.  A creation of a Sheet or Category whose hook fails partway (the   *)
(* save raised the hook's error) leaves the store as it was: neither the   *)
(* new Sheet or Category nor any entry synthesised for it is stored.       *)
(***************************************************************************)
C13_FailedHookAbortsCreation ==
    [][last'.error = "DatabaseError" => store' = store]_vars

(***************************************************************************)
(* C14.  Saving a stored Sheet or a stored Category, and loading a Sheet   *)
(* or a Category raw from a fixture, leaves the set of SheetEntry records  *)
(* unchanged.                                                              *)
(***************************************************************************)
C14_HooksOnlyOnCreation ==
    [][last'.op \in {"SaveSheet", "SaveCategory", "LoadRawSheet", "LoadRawCategory"}
          => entries' = entries]_vars

\* A sheet has just been loaded raw while a category is stored, and has no entry.
C14_Witness ==
    /\ last.op = "LoadRawSheet"
    /\ last.ok
    /\ categories # <<>>
    /\ ~\E e \in DOMAIN entries : entries[e].sheet = last.pk

(***************************************************************************)
(* C15.  No two stored Sheets have the same (month, year), and a creation  *)
(* that the unique constraint rejects leaves the store unchanged.          *)
(***************************************************************************)
C15_NoTwoSheetsOfAMonth ==
    \A s \in DOMAIN sheets, p \in DOMAIN sheets :
        (sheets[s].month = sheets[p].month /\ sheets[s].year = sheets[p].year) => s = p

C15_DuplicateRejected ==
    /\ \A s \in DOMAIN sheets' \ DOMAIN sheets :
          ~\E p \in DOMAIN sheets :
              sheets[p].month = sheets'[s].month /\ sheets[p].year = sheets'[s].year
    /\ last'.error = "IntegrityError" => store' = store

C15_UniqueMonthYear ==
    /\ [](C15_NoTwoSheetsOfAMonth)
    /\ [][C15_DuplicateRejected]_vars

\* A second sheet of a stored month and year has just been rejected.
C15_Witness ==
    /\ last.op = "CreateSheet"
    /\ last.error = "IntegrityError"
    /\ sheets # <<>>

(***************************************************************************)
(* C16.  Deleting a Category or an Account that a Transaction references   *)
(* raises ProtectedError and leaves the whole store unchanged; every       *)
(* stored Transaction references a stored Category and a stored Account.   *)
(***************************************************************************)
C16_ReferencesStored ==
    \A t \in DOMAIN transactions :
        /\ transactions[t].category \in DOMAIN categories
        /\ transactions[t].account \in DOMAIN accounts

C16_ReferencedDeleteRejected ==
    (\/ /\ last'.op = "DeleteCategory"
        /\ \E t \in DOMAIN transactions : transactions[t].category = last'.pk
     \/ /\ last'.op = "DeleteAccount"
        /\ \E t \in DOMAIN transactions : transactions[t].account = last'.pk)
      => (last'.error = "ProtectedError" /\ store' = store)

C16_ProtectedTargets ==
    /\ [](C16_ReferencesStored)
    /\ [][C16_ReferencedDeleteRejected]_vars

\* The deletion of a category that a transaction references has just been
\* rejected.
C16_Witness ==
    /\ last.op = "DeleteCategory"
    /\ last.error = "ProtectedError"
    /\ \E t \in DOMAIN transactions : transactions[t].category = last.pk

(***************************************************************************)
(* C17.  Deleting a Sheet or a Category deletes every SheetEntry that      *)
(* references it, locked or not; every stored SheetEntry references a      *)
(* stored Sheet and a stored Category.                                     *)
(***************************************************************************)
C17_EntriesReferenceStored ==
    \A e \in DOMAIN entries :
        /\ entries[e].sheet \in DOMAIN sheets
        /\ entries[e].category \in DOMAIN categories

C17_DeleteTakesEntries ==
    /\ (last'.op = "DeleteSheet" /\ last'.ok)
         => entries' = Remove(entries, {e \in DOMAIN entries : entries[e].sheet = last'.pk})
    /\ (last'.op = "DeleteCategory" /\ last'.ok)
         => entries' = Remove(entries, {e \in DOMAIN entries : entries[e].category = last'.pk})

C17_CascadeDelete ==
    /\ [](C17_EntriesReferenceStored)
    /\ [][C17_DeleteTakesEntries]_vars

\* A sheet has just been deleted and a locked entry went with it.
C17_Witness ==
    /\ last.op = "DeleteSheet"
    /\ last.ok
    /\ last.was_locked
    /\ last.pk \notin DOMAIN sheets

(***************************************************************************)
(* C18.  The result of a finished available or total computation is the    *)
(* value of the property in one of the store states the computation ran    *)
(* through, whatever another caller committed between its queries.         *)
(***************************************************************************)
C18_ReadsOneSnapshot ==
    read.pc = "done" => read.result \in read.snapshots

(***************************************************************************)
(* C19.  Deleting a Transaction is accepted whatever its locked flag: the  *)
(* row is removed and nothing else changes.                                *)
(***************************************************************************)
C19_DeleteAlwaysPermitted ==
    [][last'.op = "DeleteTransaction"
          => /\ last'.ok
             /\ last'.pk \in DOMAIN transactions
             /\ transactions' = Remove(transactions, {last'.pk})
             /\ UNCHANGED <<categories, accounts, sheets, entries>>]_vars

\* A locked transaction has just been deleted.
C19_Witness ==
    /\ last.op = "DeleteTransaction"
    /\ last.ok
    /\ last.was_locked
    /\ last.pk \notin DOMAIN transactions

(***************************************************************************)
(* C20.  available of an open Sheet without any SheetEntry is defined,     *)
(* with budgeted taken as 0: inflow, plus the available of the             *)
(* predecessor when one is stored.                                         *)
(***************************************************************************)
C20_AvailableWithoutEntries ==
    \A s \in DOMAIN sheets :
        (IsOpen(s) /\ ~\E e \in DOMAIN entries : entries[e].sheet = s)
          => Sheet_available(sheets, entries, transactions, s) = Decimal(Chained(s))

(***************************************************************************)
(* C21.  Through creations of categories and sheets and closings of        *)
(* sheets, every open Sheet has exactly one SheetEntry for each stored     *)
(* Category, and no (Sheet, Category) pair has more than one SheetEntry.   *)
(***************************************************************************)
EntriesOf(s, c) == {e \in DOMAIN entries : entries[e].sheet = s /\ entries[e].category = c}

C21_OneEntryPerOpenSheetAndCategory ==
    /\ \A s \in DOMAIN sheets, c \in DOMAIN categories :
          IsOpen(s) => Cardinality(EntriesOf(s, c)) = 1
    /\ \A s \in DOMAIN sheets, c \in DOMAIN categories : Cardinality(EntriesOf(s, c)) <= 1

\* A category has just been created beside an open sheet, which got its entry,
\* and a closed sheet, which got none.
C21_Witness ==
    /\ last.op = "CreateCategory"
    /\ \E s \in DOMAIN sheets : IsOpen(s) /\ Cardinality(EntriesOf(s, last.pk)) = 1
    /\ \E s \in DOMAIN sheets : ~IsOpen(s) /\ EntriesOf(s, last.pk) = {}

(***************************************************************************)
(* C22.  A commit by a caller that validated its update while the stored   *)
(* row was unlocked changes no lockable field of the row if the row is     *)
(* stored locked at the moment of the commit.                              *)
(***************************************************************************)
C22_NoOverwriteAfterLock ==
    [][\A c \in Callers :
          (pending[c].pc = "validated" /\ pending'[c].pc = "idle" /\ ~pending[c].saw_locked)
            => /\ (pending[c].model = "Transaction" /\ transactions[pending[c].pk].locked)
                    => ~Differs(Transaction_LOCKABLE_FIELDS, transactions[pending[c].pk],
                                transactions'[pending[c].pk])
               /\ (pending[c].model = "SheetEntry" /\ entries[pending[c].pk].locked)
                    => ~Differs(SheetEntry_LOCKABLE_FIELDS, entries[pending[c].pk],
                                entries'[pending[c].pk])]_vars

====
